---- MODULE Spec2Model ----
(***************************************************************************)
(* Model of yariasfinetune/todocajas.                                      *)
(*                                                                         *)
(*  - scripts/get_bounding_box.py: get_bounding_box_mm, the bounding box   *)
(*    of the drawing objects of a PDF's first page, in millimetres         *)
(*    (specification SpecBox).                                             *)
(*  - referencias/models.py and referencias/tasks.py: Caja.save,           *)
(*    Caja.calcular_ancho_alto_2d and the background CDR-to-PDF conversion *)
(*    threads (specification Spec).                                        *)
(*  - referencias/tasks.py: one call of convert_cdr_to_pdf, step by step   *)
(*    (specification SpecConvert).                                         *)
(*                                                                         *)
(* Lengths are whole points; a millimetre value is held as its number of   *)
(* tenths (Some(254) stands for the float 25.4).                           *)
(***************************************************************************)
EXTENDS Integers, Sequences, FiniteSets, TLC

VARIABLES
    \* ---- get_bounding_box_mm(pdf_path) ----
    doc,             \* the document behind pdf_path
    pc,              \* position of the call: "call", "opened", "returned", "raised"
    pdf_state,       \* the pdfplumber handle: "unopened", "open", "closed"
    all_objects,     \* local all_objects (sequence of <<x, y>>)
    bbox_width_pt,   \* local bbox_width_pt
    bbox_height_pt,  \* local bbox_height_pt
    result,          \* what the call returned, <<w, h>>, or <<error>> when it raised
    \* ---- the Caja table, its users and the conversion threads ----
    db,              \* the stored rows of Caja: pk -> row
    next_pk,         \* the next primary key the database hands out
    inst,            \* the Caja instance the caller holds: <<>> or <<instance>>
    threads,         \* the conversions started, in the order they were started
    last_save,       \* what the call of Caja.save just made saw and did, if the last step made one
    initial_2d,      \* <<ancho_2d_mm, alto_2d_mm>> as stored at the start (never changes)
    \* ---- one call of convert_cdr_to_pdf(caja_id, cdr_file_path) ----
    env,             \* the settings and the files on disk the call meets: <<>> or <<record>>
    conv,            \* the frame of the call (arguments, position, locals): <<>> or <<record>>
    db_at_call       \* the Caja table as it was when the call began (never changes)

boxvars == <<doc, pc, pdf_state, all_objects, bbox_width_pt, bbox_height_pt, result>>
cajavars == <<db, next_pk, inst, threads, last_save, initial_2d>>
convvars == <<env, conv, db_at_call>>

vars == <<doc, pc, pdf_state, all_objects, bbox_width_pt, bbox_height_pt, result,
          db, next_pk, inst, threads, last_save, initial_2d,
          env, conv, db_at_call>>

\* Python's None is the empty sequence; a value that may be None is held as
\* a one-element sequence (Some(254) for the float 25.4).
None == <<>>
Some(x) == <<x>>

\* no call of convert_cdr_to_pdf is followed step by step
ConvIdle == env = None /\ conv = None /\ db_at_call = None

(***************************************************************************)
(* Bounds of the model.                                                    *)
(***************************************************************************)
\* most drawing objects on one page (curves, rects and lines together)
MaxObjs == 2
\* most conversions ever started
MaxConv == 2

(***************************************************************************)
(* decimal.Decimal, as used at get_bounding_box.py:145-150.  A Decimal is  *)
(* its coefficient, a sequence of digits (Python's _int), and its exponent *)
(* (Python's _exp); every value here is non-negative.                      *)
(***************************************************************************)
\* the precision of Python's default decimal context
DecimalPrec == 28

RECURSIVE DigitsOf(_)
DigitsOf(n) == IF n < 10 THEN <<n>> ELSE DigitsOf(n \div 10) \o <<n % 10>>

RECURSIVE ToInt(_)
ToInt(ds) == IF ds = <<>> THEN 0
             ELSE 10 * ToInt(SubSeq(ds, 1, Len(ds) - 1)) + ds[Len(ds)]

Zeros(n) == [i \in 1..n |-> 0]

IsZeroDigits(ds) == \A i \in 1..Len(ds) : ds[i] = 0

RECURSIVE StripLeading(_)
StripLeading(ds) ==
    IF Len(ds) <= 1 THEN (IF ds = <<>> THEN <<0>> ELSE ds)
    ELSE IF ds[1] = 0 THEN StripLeading(Tail(ds)) ELSE ds

\* str(int(coeff) + 1) on a digit sequence
RECURSIVE Incr(_)
Incr(ds) ==
    IF ds = <<>> THEN <<1>>
    ELSE IF ds[Len(ds)] < 9
         THEN SubSeq(ds, 1, Len(ds) - 1) \o <<ds[Len(ds)] + 1>>
         ELSE Incr(SubSeq(ds, 1, Len(ds) - 1)) \o <<0>>

\* divmod(int(ds), b) by long division, b a small integer
RECURSIVE LongDivFrom(_, _, _, _)
LongDivFrom(ds, b, i, r) ==
    IF i > Len(ds) THEN [q |-> <<>>, r |-> r]
    ELSE LET cur  == r * 10 + ds[i]
             rest == LongDivFrom(ds, b, i + 1, cur % b)
         IN  [q |-> <<cur \div b>> \o rest.q, r |-> rest.r]

LongDiv(ds, b) ==
    LET d == LongDivFrom(ds, b, 1, 0) IN [q |-> StripLeading(d.q), r |-> d.r]

\* int(ds) * m, m a small integer
RECURSIVE MulCarry(_, _, _)
MulCarry(ds, m, carry) ==
    IF ds = <<>> THEN (IF carry = 0 THEN <<>> ELSE DigitsOf(carry))
    ELSE LET p == ds[Len(ds)] * m + carry
         IN  MulCarry(SubSeq(ds, 1, Len(ds) - 1), m, p \div 10) \o <<p % 10>>

MulDigits(ds, m) == StripLeading(MulCarry(ds, m, 0))

\* Decimal._round_half_up(prec): 1 to round up, otherwise 0 or -1
round_half_up(ds, prec) ==
    IF ds[prec + 1] >= 5 THEN 1
    ELSE IF IsZeroDigits(SubSeq(ds, prec + 1, Len(ds))) THEN 0 ELSE -1

\* decimal._exact_half
exact_half(ds, prec) ==
    ds[prec + 1] = 5 /\ IsZeroDigits(SubSeq(ds, prec + 2, Len(ds)))

\* Decimal._round_half_even(prec)
round_half_even(ds, prec) ==
    IF exact_half(ds, prec) /\ (prec = 0 \/ ds[prec] % 2 = 0) THEN -1
    ELSE round_half_up(ds, prec)

\* Decimal._fix(context): round to the context's precision, half-even
Decimal_fix(d) ==
    LET exp_min == Len(d.int) + d.exp - DecimalPrec IN
    IF IsZeroDigits(d.int) \/ d.exp >= exp_min THEN d
    ELSE LET digits  == Len(d.int) + d.exp - exp_min
             changed == round_half_even(d.int, digits)
             kept    == SubSeq(d.int, 1, digits)
             coeff   == IF changed > 0 THEN Incr(kept) ELSE kept
         IN  IF Len(coeff) > DecimalPrec
             THEN [int |-> SubSeq(coeff, 1, Len(coeff) - 1), exp |-> exp_min + 1]
             ELSE [int |-> coeff, exp |-> exp_min]

\* trailing zeros removed while exp < ideal_exp (an exact quotient)
RECURSIVE TowardsIdeal(_, _)
TowardsIdeal(d, ideal_exp) ==
    IF d.exp < ideal_exp /\ Len(d.int) > 1 /\ d.int[Len(d.int)] = 0
    THEN TowardsIdeal([int |-> SubSeq(d.int, 1, Len(d.int) - 1), exp |-> d.exp + 1],
                      ideal_exp)
    ELSE d

\* Decimal.__truediv__: a / b in the default context
Decimal_truediv(a, b) ==
    IF IsZeroDigits(a.int) THEN [int |-> <<0>>, exp |-> a.exp - b.exp]
    ELSE LET shift == Len(b.int) - Len(a.int) + DecimalPrec + 1
             exp   == a.exp - b.exp - shift
             dm    == LongDiv(a.int \o Zeros(shift), ToInt(b.int))
             coeff == IF dm.r # 0 /\ dm.q[Len(dm.q)] % 5 = 0
                      THEN SubSeq(dm.q, 1, Len(dm.q) - 1) \o <<dm.q[Len(dm.q)] + 1>>
                      ELSE dm.q
             ans   == IF dm.r # 0 THEN [int |-> coeff, exp |-> exp]
                      ELSE TowardsIdeal([int |-> coeff, exp |-> exp], a.exp - b.exp)
         IN  Decimal_fix(ans)

\* Decimal.__mul__: a * b in the default context
Decimal_mul(a, b) ==
    IF IsZeroDigits(a.int) \/ IsZeroDigits(b.int)
    THEN [int |-> <<0>>, exp |-> a.exp + b.exp]
    ELSE Decimal_fix([int |-> MulDigits(a.int, ToInt(b.int)), exp |-> a.exp + b.exp])

\* quantize with the context's default rounding, ROUND_HALF_EVEN
quantize_half_even(d, exp) ==
    IF IsZeroDigits(d.int) THEN [int |-> <<0>>, exp |-> exp]
    ELSE IF d.exp >= exp THEN [int |-> d.int \o Zeros(d.exp - exp), exp |-> exp]
    ELSE LET digits0 == Len(d.int) + d.exp - exp
             src     == IF digits0 < 0 THEN <<1>> ELSE d.int
             digits  == IF digits0 < 0 THEN 0 ELSE digits0
             changed == round_half_even(src, digits)
             kept    == IF digits = 0 THEN <<0>> ELSE SubSeq(src, 1, digits)
         IN  [int |-> IF changed = 1 THEN Incr(kept) ELSE kept, exp |-> exp]

\* Decimal.quantize(Decimal('0.1'), rounding=ROUND_HALF_UP): _rescale to exp -1
quantize_half_up(d, exp) ==
    IF IsZeroDigits(d.int) THEN [int |-> <<0>>, exp |-> exp]
    ELSE IF d.exp >= exp THEN [int |-> d.int \o Zeros(d.exp - exp), exp |-> exp]
    ELSE LET digits0 == Len(d.int) + d.exp - exp
             src     == IF digits0 < 0 THEN <<1>> ELSE d.int
             digits  == IF digits0 < 0 THEN 0 ELSE digits0
             changed == round_half_up(src, digits)
             kept    == IF digits = 0 THEN <<0>> ELSE SubSeq(src, 1, digits)
         IN  [int |-> IF changed = 1 THEN Incr(kept) ELSE kept, exp |-> exp]

\* Decimal(str(v)) of a float v holding a whole number: str gives "<v>.0"
Decimal_of_str(v) == [int |-> StripLeading(DigitsOf(v) \o <<0>>), exp |-> -1]

Decimal72 == [int |-> <<7, 2>>, exp |-> 0]
Decimal25_4 == [int |-> <<2, 5, 4>>, exp |-> -1]

\* float(d) of a Decimal with one decimal place, held as its number of tenths
float_tenths(d) == Some(ToInt(d.int))

\* lines 145-152: points to millimetres, one decimal place
convert_to_mm(bbox_pt) ==
    float_tenths(
        quantize_half_up(
            Decimal_mul(Decimal_truediv(Decimal_of_str(bbox_pt), Decimal72), Decimal25_4),
            -1))

(***************************************************************************)
(* Documents.  A drawing object carries the four coordinates pdfplumber    *)
(* gives it; pdfplumber normalises them (x0 <= x1, top <= bottom).         *)
(***************************************************************************)
XSpans == {<<0, 0>>, <<0, 10>>, <<20, 30>>, <<0, 72>>, <<18, 72>>, <<72, 72>>}
YSpans == {<<0, 0>>, <<0, 36>>, <<36, 36>>}

Objs == {[x0 |-> xs[1], x1 |-> xs[2], top |-> ys[1], bottom |-> ys[2]] :
            xs \in XSpans, ys \in YSpans}

Page(c, r, l) == [curves |-> c, rects |-> r, lines |-> l]

EmptyPage == Page(<<>>, <<>>, <<>>)
GeomPage == Page(<<>>, <<[x0 |-> 0, x1 |-> 72, top |-> 0, bottom |-> 36]>>,
                 <<[x0 |-> 20, x1 |-> 30, top |-> 36, bottom |-> 36]>>)

\* every coordinate of the model, and every extent max - min they can give
Coords == UNION {{s[1], s[2]} : s \in XSpans \cup YSpans}
Extents == {b - a : a \in Coords, b \in Coords} \cap Nat

\* convert_to_mm, evaluated once for every extent
mm_table == [v \in Extents |-> convert_to_mm(v)]
to_mm(bbox_pt) == mm_table[bbox_pt]

\* what may follow the first page
LaterPages == {<<>>, <<GeomPage>>}

Pdf(ok, pages) == [openable |-> ok, pages |-> pages]

\* a file pdfplumber cannot open, and a document without pages
Unopenable == Pdf(FALSE, <<>>)
NoPages == Pdf(TRUE, <<>>)

(***************************************************************************)
(* get_bounding_box_mm, lines 105-154.                                     *)
(***************************************************************************)
\* the last page instead of the first
last_page(pdf) == pdf.pages[Len(pdf.pages)]

\* pdf.pages[0]
first_page(pdf) == pdf.pages[1]

\* the test without the rectangles
has_objects_no_rects(curves, lines, rects) == curves # <<>> \/ lines # <<>>

\* line 114: if curves or lines or rects
has_objects(curves, lines, rects) == curves # <<>> \/ lines # <<>> \/ rects # <<>>

\* the two appends of one loop (lines 118-120, 122-124, 126-128)
RECURSIVE corners(_)
corners(objs) ==
    IF objs = <<>> THEN <<>>
    ELSE <<(<<Head(objs).x0, Head(objs).top>>), (<<Head(objs).x1, Head(objs).bottom>>)>>
         \o corners(Tail(objs))

\* the pool without the loop over the lines
collect_no_lines(curves, lines, rects) == corners(curves) \o corners(rects)

\* lines 115-128: all_objects after the three loops
collect(curves, lines, rects) == corners(curves) \o corners(lines) \o corners(rects)

RECURSIVE min(_)
min(s) == IF Len(s) = 1 THEN s[1]
          ELSE LET m == min(Tail(s)) IN IF s[1] <= m THEN s[1] ELSE m

RECURSIVE max(_)
max(s) == IF Len(s) = 1 THEN s[1]
          ELSE LET m == max(Tail(s)) IN IF s[1] >= m THEN s[1] ELSE m

x_coords(objs) == [i \in 1..Len(objs) |-> objs[i][1]]
y_coords(objs) == [i \in 1..Len(objs) |-> objs[i][2]]

\* the width taken from the y coordinates
width_pt_of_y(objs) == max(y_coords(objs)) - min(y_coords(objs))

\* lines 140-141
width_pt(objs) == max(x_coords(objs)) - min(x_coords(objs))
height_pt(objs) == max(y_coords(objs)) - min(y_coords(objs))

\* line 152: return float(width_mm), float(height_mm)
measurement(w_pt, h_pt) == <<to_mm(w_pt), to_mm(h_pt)>>

\* line 154
absent == <<None, None>>

\* a handle closed on return only, as by a close() call after the block
exit_pdf_on_return_only(raised) == IF raised THEN "open" ELSE "closed"

\* the handle when the with block of line 105 is left, by return or by exception
exit_pdf(raised) == "closed"

NoLocals == [all_objects |-> <<>>, bbox_width_pt |-> None, bbox_height_pt |-> None]

\* the IndexError swallowed into the absent value
no_first_page_swallowed == [exit |-> "returned", result |-> absent] @@ NoLocals

\* line 106 on a document without pages: pdf.pages[0] raises
no_first_page == [exit |-> "raised", result |-> <<"IndexError">>] @@ NoLocals

\* lines 109-154 on the first page
page_body(page) ==
    LET curves == page.curves
        rects  == page.rects
        lines  == page.lines
    IN  IF has_objects(curves, lines, rects)
        THEN LET objs == collect(curves, lines, rects) IN
             IF objs # <<>>
             THEN [exit |-> "returned",
                   result |-> measurement(width_pt(objs), height_pt(objs)),
                   all_objects |-> objs,
                   bbox_width_pt |-> width_pt(objs),
                   bbox_height_pt |-> height_pt(objs)]
             ELSE [exit |-> "returned", result |-> absent] @@ NoLocals
        ELSE [exit |-> "returned", result |-> absent] @@ NoLocals

\* The body of the with block on an open document: how it is left, what it
\* returns or raises, and the locals it assigned.
with_body(pdf) ==
    IF pdf.pages = <<>> THEN no_first_page ELSE page_body(first_page(pdf))

\* The whole call: [exit, result].
get_bounding_box_mm(pdf) ==
    IF ~pdf.openable THEN [exit |-> "raised", result |-> <<"OpenError">>]
    ELSE LET b == with_body(pdf) IN [exit |-> b.exit, result |-> b.result]

(***************************************************************************)
(* SpecBox: one call of get_bounding_box_mm on any document.               *)
(***************************************************************************)
\* the document: unopenable, without pages, or any first page of at most
\* MaxObjs drawing objects followed by any of LaterPages
InitDoc ==
    \/ doc \in {Unopenable, NoPages}
    \/ \E i \in 0..MaxObjs : \E j \in 0..(MaxObjs - i) : \E k \in 0..(MaxObjs - i - j) :
         \E c \in [1..i -> Objs], r \in [1..j -> Objs], l \in [1..k -> Objs] :
            \E later \in LaterPages :
                doc = Pdf(TRUE, <<Page(c, r, l)>> \o later)

InitBox ==
    /\ InitDoc
    /\ pc = "call"
    /\ pdf_state = "unopened"
    /\ all_objects = <<>>
    /\ bbox_width_pt = None
    /\ bbox_height_pt = None
    /\ result = None
    /\ db = <<>>
    /\ next_pk = 1
    /\ inst = None
    /\ threads = <<>>
    /\ last_save = None
    /\ initial_2d = <<None, None>>
    /\ ConvIdle

\* line 105: pdfplumber.open(pdf_path)
Open ==
    /\ pc = "call"
    /\ IF doc.openable
       THEN /\ pdf_state' = "open"
            /\ pc' = "opened"
            /\ result' = result
       ELSE /\ pdf_state' = pdf_state
            /\ pc' = "raised"
            /\ result' = <<"OpenError">>
    /\ UNCHANGED <<doc, all_objects, bbox_width_pt, bbox_height_pt>>
    /\ UNCHANGED <<cajavars, convvars>>

\* lines 106-154: the with block and the return after it
Body ==
    /\ pc = "opened"
    /\ LET b == with_body(doc) IN
        /\ all_objects' = b.all_objects
        /\ bbox_width_pt' = b.bbox_width_pt
        /\ bbox_height_pt' = b.bbox_height_pt
        /\ result' = b.result
        /\ pc' = b.exit
        /\ pdf_state' = exit_pdf(b.exit = "raised")
    /\ UNCHANGED doc
    /\ UNCHANGED <<cajavars, convvars>>

NextBox == Open \/ Body

SpecBox == InitBox /\ [][NextBox]_vars

(***************************************************************************)
(* Properties of get_bounding_box_mm (SpecBox).                            *)
(***************************************************************************)
Range2(seq) == {seq[i] : i \in 1..Len(seq)}
Finished == pc \in {"returned", "raised"}
HasFirstPage == doc.openable /\ doc.pages # <<>>
PageObjs(page) == page.curves \o page.rects \o page.lines
FirstObjs == PageObjs(doc.pages[1])
IsMm(x) == Len(x) = 1 /\ x[1] \in Nat

\* C1: a first page without curves, rectangles and lines gives (None, None),
\* neither an error nor (0.0, 0.0); a first page with any drawing object
\* never gives (None, None).
C1_AbsentIffNoGeometry ==
    (Finished /\ HasFirstPage) =>
        /\ (FirstObjs = <<>>) => (pc = "returned" /\ result = <<None, None>>)
        /\ (FirstObjs # <<>>) => (result # <<None, None>>)

C1_Witness ==
    /\ pc = "returned" /\ Len(doc.pages) = 1 /\ doc.pages[1] = EmptyPage
    /\ result = <<None, None>>

\* C2: with geometry on the first page, all_objects holds exactly the corners
\* (x0, top) and (x1, bottom) of every curve, line and rectangle, the width and
\* height in points are the spread of all pooled x and of all pooled y, never
\* negative, and a rectangle over x in [0,10] with a line over x in [20,30]
\* gives 30pt.
C2_PooledExtent ==
    (pc = "returned" /\ FirstObjs # <<>>) =>
        LET pool == {<<o.x0, o.top>> : o \in Range2(FirstObjs)}
                    \cup {<<o.x1, o.bottom>> : o \in Range2(FirstObjs)}
            xs == {c[1] : c \in pool}
            ys == {c[2] : c \in pool}
            page == doc.pages[1]
        IN  /\ {all_objects[i] : i \in 1..Len(all_objects)} = pool
            /\ Len(all_objects) = 2 * Len(FirstObjs)
            /\ \A a \in xs, b \in xs : bbox_width_pt >= a - b
            /\ \E a \in xs, b \in xs : bbox_width_pt = a - b
            /\ \A a \in ys, b \in ys : bbox_height_pt >= a - b
            /\ \E a \in ys, b \in ys : bbox_height_pt = a - b
            /\ bbox_width_pt >= 0 /\ bbox_height_pt >= 0
            /\ ( /\ page.curves = <<>> /\ Len(page.rects) = 1 /\ Len(page.lines) = 1
                 /\ page.rects[1].x0 = 0 /\ page.rects[1].x1 = 10
                 /\ page.lines[1].x0 = 20 /\ page.lines[1].x1 = 30 )
               => bbox_width_pt = 30

C2_Witness ==
    /\ pc = "returned" /\ doc.pages # <<>>
    /\ doc.pages[1].curves = <<>>
    /\ Len(doc.pages[1].rects) = 1 /\ Len(doc.pages[1].lines) = 1
    /\ doc.pages[1].rects[1].x0 = 0 /\ doc.pages[1].rects[1].x1 = 10
    /\ doc.pages[1].lines[1].x0 = 20 /\ doc.pages[1].lines[1].x1 = 30
    /\ bbox_width_pt = 30 /\ result[1] = Some(106)

\* t tenths of a millimetre is v points * 25.4 / 72 rounded half-up to one decimal
HalfUpTenths(v, t) == 36 * (2 * t - 1) <= 254 * v /\ 254 * v < 36 * (2 * t + 1)

\* C3: each returned millimetre value is its extent in points * 25.4 / 72
\* rounded half-up to one decimal place, width and height each from its own
\* extent (a tie goes up), and a single rectangle of 72pt x 36pt gives
\* (25.4, 12.7).
C3_HalfUpMillimetres ==
    (pc = "returned" /\ result # <<None, None>>) =>
        /\ HalfUpTenths(bbox_width_pt, result[1][1])
        /\ HalfUpTenths(bbox_height_pt, result[2][1])
        /\ (Len(FirstObjs) = 1 /\ bbox_width_pt = 72 /\ bbox_height_pt = 36)
              => result = <<Some(254), Some(127)>>

\* 54pt is 19.05mm, a tie, returned as 19.1
C3_Witness ==
    /\ pc = "returned" /\ result # <<None, None>>
    /\ bbox_width_pt = 54 /\ result[1] = Some(191) /\ bbox_height_pt = 36

AllXPoints == \A i \in 1..Len(FirstObjs) : FirstObjs[i].x0 = FirstObjs[i].x1
AllYPoints == \A i \in 1..Len(FirstObjs) : FirstObjs[i].top = FirstObjs[i].bottom
SameX == \A i, j \in 1..Len(FirstObjs) : FirstObjs[i].x0 = FirstObjs[j].x0
SameY == \A i, j \in 1..Len(FirstObjs) : FirstObjs[i].top = FirstObjs[j].top

\* C4 as stated: when every object has x0 = x1 (top = bottom), the width
\* (height) returned is 0.0, for any number of objects.
C4_AsStated ==
    (pc = "returned" /\ FirstObjs # <<>>) =>
        /\ AllXPoints => result[1] = Some(0)
        /\ AllYPoints => result[2] = Some(0)

\* C4 amended: when every object has x0 = x1 and all objects have the same x
\* (top = bottom, the same y), the width (height) returned is 0.0.
C4_PointsOnOneLine ==
    (pc = "returned" /\ FirstObjs # <<>>) =>
        /\ (AllXPoints /\ SameX) => result[1] = Some(0)
        /\ (AllYPoints /\ SameY) => result[2] = Some(0)

C4_Witness ==
    /\ pc = "returned" /\ doc.pages # <<>> /\ Len(FirstObjs) = 2
    /\ AllXPoints /\ SameX /\ ~AllYPoints
    /\ result[1] = Some(0) /\ result[2] = Some(127)

\* C5: a document that cannot be opened or has no pages makes the call raise,
\* never return; whatever is returned is (None, None) or two millimetre
\* values, never one of each.
C5_FailureIsRaised ==
    Finished =>
        /\ (~doc.openable \/ doc.pages = <<>>) => pc = "raised"
        /\ pc = "raised" => (result \in {<<"OpenError">>, <<"IndexError">>}
                             /\ (~doc.openable \/ doc.pages = <<>>))
        /\ pc = "returned" =>
              /\ Len(result) = 2
              /\ \/ result = <<None, None>>
                 \/ (IsMm(result[1]) /\ IsMm(result[2]))

C5_Witness ==
    pc = "raised" /\ doc.openable /\ doc.pages = <<>> /\ result = <<"IndexError">>

\* C6: when the call has returned or raised, a document it opened is closed.
C6_ClosedOnEveryExit ==
    Finished => (pdf_state # "open" /\ (doc.openable => pdf_state = "closed"))

C6_Witness == pc = "raised" /\ pdf_state = "closed"

\* what may follow the first page of the documents compared with doc
OtherLaterPages == {<<>>, <<EmptyPage>>, <<GeomPage>>, <<GeomPage, EmptyPage>>}

\* C7: every document with the same first page gives the same outcome,
\* whatever its later pages hold.
C7_OnlyFirstPage ==
    (Finished /\ HasFirstPage) =>
        \A later \in OtherLaterPages :
            get_bounding_box_mm(Pdf(TRUE, <<doc.pages[1]>> \o later))
                = [exit |-> pc, result |-> result]

C7_Witness ==
    /\ pc = "returned" /\ Len(doc.pages) = 2
    /\ doc.pages[1] = EmptyPage /\ doc.pages[2] = GeomPage
    /\ result = <<None, None>>

(***************************************************************************)
(* referencias/models.py and referencias/tasks.py.                         *)
(*                                                                         *)
(* A file name is the sequence of its parts, <<directory, stem, extension>>;*)
(* a path is the name below the media root.                                *)
(***************************************************************************)
CdrFiles == {<<"cdr_files", "a", "cdr">>, <<"cdr_files", "b", "cdr">>}

\* the primary keys the database hands out: the model follows one Caja, as
\* Caja.save reads and writes no row but the one of its own key
Pks == {1}

\* FieldFile.path
path(name) == <<"media">> \o name

\* os.path.basename
basename(p) == <<p[Len(p) - 1], p[Len(p)]>>

\* os.path.splitext(base)[0]
splitext0(base) == base[1]

\* tasks.py line 200
pdf_filename(cdr_file_path) == <<splitext0(basename(cdr_file_path)), "pdf">>

\* tasks.py line 205: the name archivo_pdf is saved under
pdf_name(cdr_file_path) == <<"pdf_files">> \o pdf_filename(cdr_file_path)

\* the PDF files a conversion may have produced, as get_bounding_box_mm reads them
CajaPdfs == {NoPages, Pdf(TRUE, <<EmptyPage>>), Pdf(TRUE, <<GeomPage>>)}

\* the stored fields of a Caja the model follows (models.py lines 20-23)
Row(caja) == [archivo_cdr |-> caja.archivo_cdr, archivo_pdf |-> caja.archivo_pdf,
              ancho_2d_mm |-> caja.ancho_2d_mm, alto_2d_mm |-> caja.alto_2d_mm]

\* an instance as Caja.objects.get(pk=pk) builds it: no ancho_2d_cm, alto_2d_cm
FromRow(pk, row) ==
    [pk |-> Some(pk), archivo_cdr |-> row.archivo_cdr, archivo_pdf |-> row.archivo_pdf,
     ancho_2d_mm |-> row.ancho_2d_mm, alto_2d_mm |-> row.alto_2d_mm,
     has_2d_cm |-> FALSE, ancho_2d_cm |-> None, alto_2d_cm |-> None]

\* an instance as Caja(archivo_cdr=cdr) builds it
NewInstance(cdr) ==
    [pk |-> None, archivo_cdr |-> cdr, archivo_pdf |-> None,
     ancho_2d_mm |-> None, alto_2d_mm |-> None,
     has_2d_cm |-> FALSE, ancho_2d_cm |-> None, alto_2d_cm |-> None]

\* a row stored before this code ran, with measurements in its 2D fields
LegacyRow ==
    [archivo_cdr |-> Some(<<"cdr_files", "a", "cdr">>),
     archivo_pdf |-> Some(<<"pdf_files", "a", "pdf">>),
     ancho_2d_mm |-> Some(2540), alto_2d_mm |-> Some(1270)]

\* tasks.py lines 20-25: the thread convert_cdr_to_pdf_async starts
Thread(caja_id, cdr_file_path) ==
    [caja_id |-> caja_id, cdr_file_path |-> cdr_file_path,
     pc |-> "running", caja |-> None, stored |-> FALSE]

\* a conversion that has returned
Done(t, stored) == [t EXCEPT !.pc = "done", !.caja = None, !.stored = stored]

\* models.py line 90
save_triggers(archivo_cdr, is_new, cdr_changed) ==
    archivo_cdr # None /\ (is_new \/ cdr_changed)

\* models.py line 87: super().save() writes every field of the instance,
\* updating the row with its pk or inserting one
super_save(table, pk, caja) ==
    [k \in DOMAIN table \cup {pk} |-> IF k = pk THEN Row(caja) ELSE table[k]]

\* models.py lines 67-93, Caja.save on instance caja: the instance, the table
\* and the key counter afterwards, and the conversion started, if any
Caja_save(caja, table, nextpk) ==
    LET no_pk       == caja.pk = None
        found       == ~no_pk /\ caja.pk[1] \in DOMAIN table
        cdr_changed == found /\ table[caja.pk[1]].archivo_cdr # caja.archivo_cdr
        is_new      == no_pk \/ ~found
        pk          == IF no_pk THEN nextpk ELSE caja.pk[1]
        saved       == [caja EXCEPT !.pk = Some(pk)]
    IN  [caja    |-> saved,
         db      |-> super_save(table, pk, saved),
         next_pk |-> IF no_pk THEN nextpk + 1 ELSE nextpk,
         started |-> IF save_triggers(caja.archivo_cdr, is_new, cdr_changed)
                     THEN <<Thread(saved.pk, path(caja.archivo_cdr[1]))>>
                     ELSE <<>>]

\* What a call of Caja.save met in the table and what it did, for the
\* properties below: who called, whether the instance had a CDR file, a
\* primary key, a stored row, a CDR name other than the stored one, whether a
\* conversion was started, and whether the row was stored by then.
SaveRecord(by, caja, table, r) ==
    [by      |-> by,
     has_cdr |-> caja.archivo_cdr # None,
     no_pk   |-> caja.pk = None,
     no_row  |-> caja.pk # None /\ caja.pk[1] \notin DOMAIN table,
     differs |-> /\ caja.pk # None /\ caja.pk[1] \in DOMAIN table
                 /\ table[caja.pk[1]].archivo_cdr # caja.archivo_cdr,
     started |-> r.started # <<>>,
     stored  |-> /\ r.started # <<>>
                 /\ r.started[1].caja_id # None
                 /\ r.started[1].caja_id[1] \in DOMAIN r.db
                 /\ r.db[r.started[1].caja_id[1]].archivo_cdr = caja.archivo_cdr]

\* the measurement assigned to the stored fields instead
assign_2d_mm(caja, width, height) ==
    [caja EXCEPT !.ancho_2d_mm = width, !.alto_2d_mm = height]

\* models.py lines 63-64: the measurement goes to ancho_2d_cm and alto_2d_cm
assign_2d(caja, width, height) ==
    [caja EXCEPT !.has_2d_cm = TRUE, !.ancho_2d_cm = width, !.alto_2d_cm = height]

Init ==
    /\ doc = NoPages
    /\ pc = "call"
    /\ pdf_state = "unopened"
    /\ all_objects = <<>>
    /\ bbox_width_pt = None
    /\ bbox_height_pt = None
    /\ result = None
    /\ \/ db = <<>> /\ next_pk = 1 /\ initial_2d = <<None, None>>
       \/ /\ db = <<LegacyRow>> /\ next_pk = 2
          /\ initial_2d = <<LegacyRow.ancho_2d_mm, LegacyRow.alto_2d_mm>>
    /\ inst = None
    /\ threads = <<>>
    /\ last_save = None
    /\ ConvIdle

\* Caja(archivo_cdr=...): a new instance, not yet saved
NewCaja ==
    /\ next_pk \in Pks
    /\ \E cdr \in {None} \cup {Some(f) : f \in CdrFiles} : inst' = Some(NewInstance(cdr))
    /\ last_save' = None
    /\ UNCHANGED <<db, next_pk, threads>>
    /\ UNCHANGED <<boxvars, initial_2d, convvars>>

\* Caja.objects.get(pk=pk) by the caller
Load ==
    /\ \E pk \in DOMAIN db : inst' = Some(FromRow(pk, db[pk]))
    /\ last_save' = None
    /\ UNCHANGED <<db, next_pk, threads>>
    /\ UNCHANGED <<boxvars, initial_2d, convvars>>

\* a new CDR file is put on the instance
SetCdr ==
    /\ inst # None
    /\ \E f \in CdrFiles :
        /\ inst[1].archivo_cdr # Some(f)
        /\ inst' = Some([inst[1] EXCEPT !.archivo_cdr = Some(f)])
    /\ last_save' = None
    /\ UNCHANGED <<db, next_pk, threads>>
    /\ UNCHANGED <<boxvars, initial_2d, convvars>>

\* Caja.save called by the caller
Save ==
    /\ inst # None
    /\ inst[1].pk = None => next_pk \in Pks
    /\ LET r == Caja_save(inst[1], db, next_pk) IN
        /\ Len(threads) + Len(r.started) <= MaxConv
        /\ inst' = Some(r.caja)
        /\ db' = r.db
        /\ next_pk' = r.next_pk
        /\ threads' = threads \o r.started
        /\ last_save' = Some(SaveRecord("user", inst[1], db, r))
    /\ UNCHANGED <<boxvars, initial_2d, convvars>>

\* models.py lines 55-65, Caja.calcular_ancho_alto_2d; without a PDF, or when
\* get_bounding_box_mm raises, the call raises and nothing changes
calcular_ancho_alto_2d ==
    /\ inst # None
    /\ inst[1].archivo_pdf # None
    /\ inst[1].pk = None => next_pk \in Pks
    /\ \E content \in CajaPdfs :
        LET box == get_bounding_box_mm(content) IN
        /\ box.exit = "returned"
        /\ LET caja == assign_2d(inst[1], box.result[1], box.result[2])
               r    == Caja_save(caja, db, next_pk)
           IN  /\ Len(threads) + Len(r.started) <= MaxConv
               /\ inst' = Some(r.caja)
               /\ db' = r.db
               /\ next_pk' = r.next_pk
               /\ threads' = threads \o r.started
               /\ last_save' = Some(SaveRecord("calcular", caja, db, r))
    /\ UNCHANGED <<boxvars, initial_2d, convvars>>

\* the row is deleted (the admin site's delete)
Delete ==
    /\ \E pk \in DOMAIN db : db' = [k \in DOMAIN db \ {pk} |-> db[k]]
    /\ last_save' = None
    /\ UNCHANGED <<next_pk, inst, threads>>
    /\ UNCHANGED <<boxvars, initial_2d, convvars>>

\* tasks.py lines 38-197 and 209-213: the conversion fails before it has a
\* PDF (no API key, no file, an HTTP error, a failed job, a timeout); the
\* exception is caught and the function returns
ConvFail(i) ==
    /\ threads[i].pc = "running"
    /\ threads' = [threads EXCEPT ![i] = Done(@, FALSE)]
    /\ last_save' = None
    /\ UNCHANGED <<db, next_pk, inst>>
    /\ UNCHANGED <<boxvars, initial_2d, convvars>>

\* tasks.py lines 38-205: the PDF is downloaded, the Caja read (line 204) and,
\* in archivo_pdf.save (line 205), the file written and the field set on the
\* instance read; Caja.DoesNotExist is caught and the function returns
ConvFetch(i) ==
    /\ threads[i].pc = "running"
    /\ LET id == threads[i].caja_id IN
       IF id # None /\ id[1] \in DOMAIN db
       THEN threads' = [threads EXCEPT
                ![i].pc = "fetched",
                ![i].caja = Some([FromRow(id[1], db[id[1]]) EXCEPT
                                    !.archivo_pdf = Some(pdf_name(threads[i].cdr_file_path))])]
       ELSE threads' = [threads EXCEPT ![i] = Done(@, FALSE)]
    /\ last_save' = None
    /\ UNCHANGED <<db, next_pk, inst>>
    /\ UNCHANGED <<boxvars, initial_2d, convvars>>

\* tasks.py line 205, the end of archivo_pdf.save(..., save=True): Caja.save
\* on the instance read at line 204
ConvStore(i) ==
    /\ threads[i].pc = "fetched"
    /\ LET caja == threads[i].caja[1]
           r    == Caja_save(caja, db, next_pk)
       IN  /\ Len(threads) + Len(r.started) <= MaxConv
           /\ db' = r.db
           /\ next_pk' = r.next_pk
           /\ threads' = [threads EXCEPT ![i] = Done(@, TRUE)] \o r.started
           /\ last_save' = Some(SaveRecord("convert", caja, db, r))
    /\ UNCHANGED inst
    /\ UNCHANGED <<boxvars, initial_2d, convvars>>

Next ==
    \/ NewCaja
    \/ Load
    \/ SetCdr
    \/ Save
    \/ calcular_ancho_alto_2d
    \/ Delete
    \/ \E i \in 1..Len(threads) : ConvFail(i)
    \/ \E i \in 1..Len(threads) : ConvFetch(i)
    \/ \E i \in 1..Len(threads) : ConvStore(i)

Spec == Init /\ [][Next]_vars

(***************************************************************************)
(* Properties of Caja and its conversions (Spec).                          *)
(***************************************************************************)
Fields2d(r) == <<r.ancho_2d_mm, r.alto_2d_mm>>

\* C8: the stored fields ancho_2d_mm and alto_2d_mm of the row, and of every
\* instance read from it, keep the values they had at the start (null for a
\* Caja created here) through every save, calcular_ancho_alto_2d and
\* conversion; the measurement is only in ancho_2d_cm and alto_2d_cm.
C8_Stored2dFieldsUntouched ==
    /\ \A pk \in DOMAIN db : Fields2d(db[pk]) = initial_2d
    /\ inst # None =>
          Fields2d(inst[1]) = IF inst[1].pk = None THEN <<None, None>> ELSE initial_2d
    /\ \A i \in 1..Len(threads) :
          threads[i].caja # None => Fields2d(threads[i].caja[1]) = initial_2d

C8_Witness ==
    /\ last_save # None /\ last_save[1].by = "calcular"
    /\ initial_2d = <<None, None>>
    /\ inst[1].has_2d_cm
    /\ inst[1].ancho_2d_cm = Some(254) /\ inst[1].alto_2d_cm = Some(127)
    /\ inst[1].pk # None /\ inst[1].pk[1] \in DOMAIN db
    /\ Fields2d(db[inst[1].pk[1]]) = <<None, None>>

\* C9 as stated: a call of Caja.save starts a conversion exactly when the
\* instance has a CDR file and is new (no primary key, or no stored row) or
\* its CDR name is not the stored one; the save made by
\* calcular_ancho_alto_2d with the stored CDR name and the save made by a
\* conversion when it stores the PDF start none; a conversion is started
\* only once the row is stored.
C9_AsStated ==
    last_save # None =>
        LET s == last_save[1] IN
        /\ s.started <=> (s.has_cdr /\ (s.no_pk \/ s.no_row \/ s.differs))
        /\ (s.by = "calcular" /\ ~s.no_pk /\ ~s.no_row /\ ~s.differs) => ~s.started
        /\ s.by = "convert" => ~s.started
        /\ s.started => s.stored

\* C10 as stated: when two conversions were started for one Caja, for two
\* different CDR files, and both have stored their PDF, archivo_pdf is the PDF
\* of the CDR file of the later save.
C10_AsStated ==
    ( /\ last_save # None /\ last_save[1].by = "convert"
      /\ Len(threads) = 2
      /\ \A i \in 1..2 : threads[i].pc = "done" /\ threads[i].stored
      /\ threads[1].caja_id = threads[2].caja_id
      /\ threads[1].cdr_file_path # threads[2].cdr_file_path
      /\ threads[2].caja_id[1] \in DOMAIN db )
    => db[threads[2].caja_id[1]].archivo_pdf = Some(pdf_name(threads[2].cdr_file_path))

(***************************************************************************)
(* convert_cdr_to_pdf (tasks.py lines 28-213), one call followed step by   *)
(* step: specification SpecConvert.                                        *)
(*                                                                         *)
(* A path is the sequence of its parts; an absolute path starts with the   *)
(* part of MEDIA_ROOT or BASE_DIR.  Times are whole seconds.               *)
(***************************************************************************)

\* how many replies the polling loop is followed for
MaxPolls == 3

\* tasks.py line 166
max_wait_time == 300

\* how long one status request may take, in seconds
Durations == {0, 150, 299}

\* the values settings may hold
ApiKeys == {None, Some(""), Some("key")}
MediaRoots == {None, Some(<<"media">>)}
BaseDirs == {None, Some(<<"base">>)}

\* the cdr_file_path arguments followed: FieldFile.path (absolute, models.py
\* line 92), a name relative to MEDIA_ROOT, and a bare file name
CallArgs == {path(<<"cdr_files", "a", "cdr">>), <<"cdr_files", "a", "cdr">>, <<"a", "cdr">>}

\* os.path.isabs
isabs(p) == p[1] \in {"media", "base"}

\* os.path.join
join(dir, rel) == dir \o rel

\* 'cdr_files/' in cdr_file_path
in_cdr_files(p) == \E i \in 1..(Len(p) - 1) : p[i] = "cdr_files"

\* tasks.py lines 58 and 77
legacy_in_cdr_files(base_dir, p) == join(join(base_dir, <<"cdr_files">>), basename(p))

\* the paths lines 47-82 may look at, for argument p
Candidates(p) ==
    IF isabs(p) THEN {p, legacy_in_cdr_files(<<"base">>, p)}
    ELSE {join(<<"media">>, p),
          IF in_cdr_files(p) THEN legacy_in_cdr_files(<<"base">>, p) ELSE join(<<"base">>, p)}

\* a value Python takes as false in "if not api_key": None or ''
falsy(api_key) == api_key = None \/ api_key[1] = ""

\* tasks.py lines 47-82: cdr_file_full_path, or None
locate(p, settings, files) ==
    LET media_root == settings.MEDIA_ROOT
        base_dir   == settings.BASE_DIR
    IN  IF isabs(p)
        THEN IF p \in files THEN Some(p)
             ELSE IF base_dir # None /\ legacy_in_cdr_files(base_dir[1], p) \in files
                  THEN Some(legacy_in_cdr_files(base_dir[1], p))
                  ELSE None
        ELSE LET in_media == IF media_root # None /\ join(media_root[1], p) \in files
                             THEN Some(join(media_root[1], p)) ELSE None
                 legacy_path == IF in_cdr_files(p)
                                THEN legacy_in_cdr_files(base_dir[1], p)
                                ELSE join(base_dir[1], p)
             IN  IF in_media = None /\ base_dir # None
                 THEN IF legacy_path \in files THEN Some(legacy_path) ELSE None
                 ELSE in_media

\* a task of a CloudConvert job, as the code reads it
Task(id, operation, status, res) ==
    [id |-> id, operation |-> operation, status |-> status, result |-> res]

\* task['result'] with its 'form' and 'files' entries, None where missing
Result(form, files) == [form |-> form, files |-> files]

ImportTask(status, res) == Task(1, "import/upload", status, res)
ConvertTask(status) == Task(2, "convert", status, None)
ExportTask(status, res) == Task(3, "export/url", status, res)

UploadForm == Some(Result(Some("form"), None))

\* the jobs the POST of line 132 may answer with (job['data']['tasks'])
Jobs ==
    { <<ImportTask("waiting", UploadForm), ConvertTask("waiting"), ExportTask("waiting", None)>>,
      <<ImportTask("error", None), ConvertTask("waiting"), ExportTask("waiting", None)>>,
      <<ImportTask("waiting", None), ConvertTask("waiting"), ExportTask("waiting", None)>>,
      <<ImportTask("waiting", UploadForm), ConvertTask("waiting")>> }

\* an HTTP reply: whether raise_for_status passes, and json()['data'], None
\* when the body has no 'data'
Reply(ok, data) == [ok |-> ok, data |-> data]

JobReplies == {Reply(FALSE, None), Reply(TRUE, None)} \cup {Reply(TRUE, Some(j)) : j \in Jobs}

\* the export task as a finished job may report it
ExportResults ==
    { ExportTask("finished", Some(Result(None, Some(<<"url">>)))),
      ExportTask("finished", Some(Result(None, Some(<<>>)))),
      ExportTask("finished", Some(Result(None, None))),
      ExportTask("finished", None),
      ExportTask("waiting", None) }

JobStatus(status, tasks) == [status |-> status, tasks |-> tasks]

\* what the GET of line 170 may answer with (json()['data'])
StatusReplies ==
    {Reply(FALSE, None)}
    \cup {Reply(TRUE, Some(JobStatus(st, <<ImportTask("finished", None), ConvertTask(st),
                                         ExportTask("waiting", None)>>))) :
            st \in {"waiting", "processing", "error"}}
    \cup {Reply(TRUE, Some(JobStatus("finished", <<ImportTask("finished", None),
                                                  ConvertTask("finished"), e>>))) :
            e \in ExportResults}

\* tasks.py lines 138-142
RECURSIVE find_upload_task(_, _)
find_upload_task(tasks, i) ==
    IF i > Len(tasks) THEN None
    ELSE IF tasks[i].operation = "import/upload" /\ tasks[i].status = "waiting"
         THEN Some(tasks[i])
         ELSE find_upload_task(tasks, i + 1)

\* tasks.py lines 157-161
RECURSIVE find_export_task_id(_, _)
find_export_task_id(tasks, i) ==
    IF i > Len(tasks) THEN None
    ELSE IF tasks[i].operation = "export/url" THEN Some(tasks[i].id)
         ELSE find_export_task_id(tasks, i + 1)

\* tasks.py lines 186-190
RECURSIVE find_export_task(_, _, _)
find_export_task(tasks, export_task_id, i) ==
    IF i > Len(tasks) THEN None
    ELSE IF tasks[i].id = export_task_id /\ tasks[i].status = "finished"
         THEN Some(tasks[i])
         ELSE find_export_task(tasks, export_task_id, i + 1)

\* the exception classes the call can meet; all derive from Exception
ExceptionClasses == {"HTTPError", "KeyError", "TypeError", "ValueError", "OSError",
                     "Exception", "TimeoutError", "IndexError", "DoesNotExist"}

\* a handler that catches ValueError only
except_ValueError(class) == class = "ValueError"

\* tasks.py line 209: except Exception
except_Exception(class) == class \in ExceptionClasses

\* the frame when convert_cdr_to_pdf(caja_id, cdr_file_path) is entered
Frame(caja_id, cdr_file_path) ==
    [caja_id |-> caja_id, cdr_file_path |-> cdr_file_path, pc |-> "api_key",
     early |-> None, exc |-> None,
     cdr_file_full_path |-> None, job |-> None, upload_task |-> None,
     export_task_id |-> None, start_time |-> 0, now |-> 0, checked_at |-> 0,
     polls |-> 0, job_status |-> None, export_task |-> None,
     pdf_response |-> None, caja |-> None]

\* an exception of class class leaves the try block for line 209
raise(c, class) == [c EXCEPT !.pc = "except", !.exc = Some(class)]

\* an early return (lines 43 and 103)
return_early(c, why) == [c EXCEPT !.pc = "returned", !.early = Some(why)]

\* the rows convert_cdr_to_pdf may find under caja_id: none (the Caja was
\* deleted), one without a PDF, one with the PDF of an earlier conversion
InitConvert ==
    /\ doc = NoPages
    /\ pc = "call"
    /\ pdf_state = "unopened"
    /\ all_objects = <<>>
    /\ bbox_width_pt = None
    /\ bbox_height_pt = None
    /\ result = None
    /\ \/ db = <<>> /\ initial_2d = <<None, None>>
       \/ db = <<Row(NewInstance(Some(<<"cdr_files", "a", "cdr">>)))>> /\ initial_2d = <<None, None>>
       \/ db = <<LegacyRow>> /\ initial_2d = <<LegacyRow.ancho_2d_mm, LegacyRow.alto_2d_mm>>
    /\ next_pk = 2
    /\ inst = None
    /\ threads = <<>>
    /\ last_save = None
    /\ \E p \in CallArgs :
        /\ conv = Some(Frame(Some(1), p))
        /\ \E k \in ApiKeys, m \in MediaRoots, b \in BaseDirs, fs \in SUBSET Candidates(p) :
             env = Some([settings |-> [CLOUDCONVERT_API_KEY |-> k, MEDIA_ROOT |-> m, BASE_DIR |-> b],
                         files |-> fs])
    /\ db_at_call = Some(db)

\* tasks.py lines 40-43
GetApiKey ==
    /\ conv # None /\ conv[1].pc = "api_key"
    /\ conv' = Some(IF falsy(env[1].settings.CLOUDCONVERT_API_KEY)
                    THEN return_early(conv[1], "api_key")
                    ELSE [conv[1] EXCEPT !.pc = "locate"])
    /\ UNCHANGED <<boxvars, cajavars, env, db_at_call>>

\* tasks.py lines 47-103
FindCdrFile ==
    /\ conv # None /\ conv[1].pc = "locate"
    /\ LET c == conv[1]
           cdr_file_full_path == locate(c.cdr_file_path, env[1].settings, env[1].files)
       IN  conv' = Some(IF cdr_file_full_path = None \/ cdr_file_full_path[1] \notin env[1].files
                        THEN return_early(c, "not_found")
                        ELSE [c EXCEPT !.pc = "create_job",
                                       !.cdr_file_full_path = cdr_file_full_path])
    /\ UNCHANGED <<boxvars, cajavars, env, db_at_call>>

\* tasks.py lines 132-135
CreateJob ==
    /\ conv # None /\ conv[1].pc = "create_job"
    /\ \E response \in JobReplies :
        conv' = Some(IF ~response.ok THEN raise(conv[1], "HTTPError")
                     ELSE IF response.data = None THEN raise(conv[1], "KeyError")
                     ELSE [conv[1] EXCEPT !.pc = "upload", !.job = response.data])
    /\ UNCHANGED <<boxvars, cajavars, env, db_at_call>>

\* tasks.py lines 138-154
Upload ==
    /\ conv # None /\ conv[1].pc = "upload"
    /\ LET c == conv[1]
           upload_task == find_upload_task(c.job[1], 1)
       IN  \E opened \in BOOLEAN, upload_ok \in BOOLEAN :
            conv' = Some(IF upload_task = None THEN raise(c, "ValueError")
                         ELSE IF upload_task[1].result = None
                              THEN raise([c EXCEPT !.upload_task = upload_task], "TypeError")
                         ELSE IF ~opened
                              THEN raise([c EXCEPT !.upload_task = upload_task], "OSError")
                         ELSE IF ~upload_ok
                              THEN raise([c EXCEPT !.upload_task = upload_task], "HTTPError")
                         ELSE [c EXCEPT !.pc = "export_id", !.upload_task = upload_task])
    /\ UNCHANGED <<boxvars, cajavars, env, db_at_call>>

\* tasks.py lines 157-167
FindExportTaskId ==
    /\ conv # None /\ conv[1].pc = "export_id"
    /\ LET c == conv[1]
           export_task_id == find_export_task_id(c.job[1], 1)
       IN  conv' = Some(IF export_task_id = None THEN raise(c, "ValueError")
                        ELSE [c EXCEPT !.pc = "poll", !.export_task_id = export_task_id,
                                       !.start_time = c.now])
    /\ UNCHANGED <<boxvars, cajavars, env, db_at_call>>

\* tasks.py lines 169-183: one turn of the polling loop
Poll ==
    /\ conv # None /\ conv[1].pc = "poll"
    /\ conv[1].polls < MaxPolls
    /\ \E d \in Durations, status_response \in StatusReplies :
        LET c == [conv[1] EXCEPT !.polls = @ + 1, !.now = @ + d]
        IN  conv' = Some(
              IF ~status_response.ok THEN raise(c, "HTTPError")
              ELSE LET job_status == status_response.data[1]
                       got == [c EXCEPT !.job_status = Some(job_status)]
                   IN  IF job_status.status = "finished"
                       THEN [got EXCEPT !.pc = "export_task"]
                       ELSE IF job_status.status = "error"
                       THEN raise(got, "Exception")
                       ELSE IF got.now - got.start_time > max_wait_time
                       THEN raise([got EXCEPT !.checked_at = got.now], "TimeoutError")
                       ELSE [got EXCEPT !.checked_at = got.now, !.now = @ + 2])
    /\ UNCHANGED <<boxvars, cajavars, env, db_at_call>>

\* tasks.py lines 186-195
FindExportTask ==
    /\ conv # None /\ conv[1].pc = "export_task"
    /\ LET c == conv[1]
           export_task == find_export_task(c.job_status[1].tasks, c.export_task_id[1], 1)
           found == [c EXCEPT !.export_task = export_task]
       IN  conv' = Some(
              IF export_task = None \/ export_task[1].result = None
                                    \/ export_task[1].result[1].files = None
              THEN raise(found, "ValueError")
              ELSE IF export_task[1].result[1].files[1] = <<>>
              THEN raise(found, "IndexError")
              ELSE [found EXCEPT !.pc = "download"])
    /\ UNCHANGED <<boxvars, cajavars, env, db_at_call>>

\* tasks.py lines 196-197
Download ==
    /\ conv # None /\ conv[1].pc = "download"
    /\ \E ok \in BOOLEAN :
        conv' = Some(IF ok THEN [conv[1] EXCEPT !.pc = "get", !.pdf_response = Some("ok")]
                     ELSE raise([conv[1] EXCEPT !.pdf_response = Some("error")], "HTTPError"))
    /\ UNCHANGED <<boxvars, cajavars, env, db_at_call>>

\* tasks.py lines 200-204
GetCaja ==
    /\ conv # None /\ conv[1].pc = "get"
    /\ LET c == conv[1]
           id == c.caja_id[1]
       IN  conv' = Some(IF id \in DOMAIN db
                        THEN [c EXCEPT !.pc = "store", !.caja = Some(FromRow(id, db[id]))]
                        ELSE raise(c, "DoesNotExist"))
    /\ UNCHANGED <<boxvars, cajavars, env, db_at_call>>

\* tasks.py lines 205-207: archivo_pdf.save(..., save=True) sets the field and
\* calls Caja.save on the instance read at line 204
StorePdf ==
    /\ conv # None /\ conv[1].pc = "store"
    /\ LET c    == conv[1]
           caja == [c.caja[1] EXCEPT !.archivo_pdf = Some(pdf_name(c.cdr_file_path))]
           r    == Caja_save(caja, db, next_pk)
       IN  /\ db' = r.db
           /\ next_pk' = r.next_pk
           /\ threads' = threads \o r.started
           /\ last_save' = Some(SaveRecord("convert", caja, db, r))
           /\ conv' = Some([c EXCEPT !.pc = "returned", !.caja = Some(r.caja)])
    /\ UNCHANGED <<boxvars, inst, initial_2d, env, db_at_call>>

\* tasks.py lines 209-213: the except clause; an exception it does not catch
\* leaves the function
Except ==
    /\ conv # None /\ conv[1].pc = "except"
    /\ conv' = Some([conv[1] EXCEPT !.pc = IF except_Exception(conv[1].exc[1])
                                           THEN "returned" ELSE "raised"])
    /\ UNCHANGED <<boxvars, cajavars, env, db_at_call>>

NextConvert ==
    \/ GetApiKey
    \/ FindCdrFile
    \/ CreateJob
    \/ Upload
    \/ FindExportTaskId
    \/ Poll
    \/ FindExportTask
    \/ Download
    \/ GetCaja
    \/ StorePdf
    \/ Except

SpecConvert == InitConvert /\ [][NextConvert]_vars

(***************************************************************************)
(* Properties of convert_cdr_to_pdf (SpecConvert).                         *)
(***************************************************************************)

\* the call ended without storing a PDF: an early return or a caught exception
Failed == conv[1].pc = "returned" /\ (conv[1].early # None \/ conv[1].exc # None)

\* the polling loop was entered and has been left
LeftLoop == conv[1].polls > 0 /\ conv[1].pc # "poll"

\* C11: convert_cdr_to_pdf never raises to its caller; whenever it ends on a
\* failure (no API key, no CDR file, an HTTP error, no upload or export task,
\* job status 'error', more than 300 seconds of polling, no Caja) it has
\* returned and the Caja table is as it was when the call began; the table
\* differs from that only once the call has returned after a poll answered
\* 'finished' and the download succeeded; and the polling loop goes on while
\* the status is neither 'finished' nor 'error' and no more than 300 seconds
\* have passed, and is left on 'finished', on 'error' (Exception), on more
\* than 300 seconds (TimeoutError) or on a failed request, and on nothing else.
C11_NeverRaisesWritesLast ==
    conv # None =>
        LET c == conv[1] IN
        /\ c.pc # "raised"
        /\ Failed => db = db_at_call[1]
        /\ db # db_at_call[1] =>
              /\ c.pc = "returned" /\ c.early = None /\ c.exc = None
              /\ c.job_status # None /\ c.job_status[1].status = "finished"
              /\ c.pdf_response = Some("ok")
        /\ (c.pc = "poll" /\ c.polls > 0) =>
              /\ c.job_status[1].status \notin {"finished", "error"}
              /\ c.checked_at - c.start_time <= max_wait_time
        /\ LeftLoop =>
              \/ c.job_status # None /\ c.job_status[1].status = "finished"
              \/ /\ c.job_status # None /\ c.job_status[1].status = "error"
                 /\ c.exc = Some("Exception")
              \/ /\ c.exc = Some("TimeoutError")
                 /\ c.job_status[1].status \notin {"finished", "error"}
                 /\ c.checked_at - c.start_time > max_wait_time
              \/ c.exc = Some("HTTPError")

\* the polling ran past 300 seconds on the second reply, TimeoutError was
\* caught, the call has returned and the stored Caja is untouched
C11_Witness ==
    /\ conv # None /\ conv[1].pc = "returned"
    /\ conv[1].exc = Some("TimeoutError") /\ conv[1].polls = 2
    /\ db # <<>> /\ db = db_at_call[1]
====
